---- MODULE Spec2Model ----
(***************************************************************************)
(* Model of the story client (frontend/src/App.tsx, styled variant).       *)
(*                                                                         *)
(* The component state (prompt, loading, fetching, error, stories,         *)
(* generated, query) is the React state of App.  Every event handler and   *)
(* every continuation after an `await` runs to completion on the single UI *)
(* thread, so each is one atomic action.  The two fetch calls are modelled *)
(* as requests in flight: the request is issued by the handler, answered   *)
(* by the backend (or rejected by the network), and the continuation of    *)
(* the async function then consumes the response.                          *)
(*                                                                         *)
(* Text is a sequence of one-character strings so that trim, toLowerCase   *)
(* and includes are computed rather than assumed.                          *)
(***************************************************************************)
EXTENDS Naturals, Sequences, FiniteSets

VARIABLES
    prompt,      \* useState("")            : text of the prompt field
    loading,     \* useState(false)         : a generation is being awaited
    fetching,    \* useState(false)         : a listing is being awaited
    error,       \* useState<string|null>   : text of the error banner
    stories,     \* useState<Story[]>([])   : the story collection
    generated,   \* useState<Story|null>    : the story generated last
    query,       \* useState("")            : text of the search field
    mounted,     \* the mount effect (useEffect(..., [])) has run
    event,       \* generate trigger dispatched, handler not yet run
    genReqs,     \* POST /api/story requests in flight, issued by onGenerate
    posts,       \* number of POST requests issued so far
    listReq,     \* the GET /api/story request issued by loadStories
    db,          \* the backend's store, newest first
    console      \* messages written by console.error

vars == <<prompt, loading, fetching, error, stories, generated, query,
          mounted, event, genReqs, posts, listReq, db, console>>

----------------------------------------------------------------------------
(* Bounds *)

MaxPosts == 2          \* POST requests issued in one behaviour

MaxListLen == 3        \* stories in a collection given to the filter

----------------------------------------------------------------------------
(* Text *)

Whitespace == {" "}

LowerChar(c) ==
    CASE c = "A" -> "a"
      [] c = "B" -> "b"
      [] c = "C" -> "c"
      [] c = "D" -> "d"
      [] c = "T" -> "t"
      [] OTHER   -> c

ToLowerCase(s) == [i \in 1..Len(s) |-> LowerChar(s[i])]

RECURSIVE TrimStart(_)
TrimStart(s) ==
    IF s # <<>> /\ Head(s) \in Whitespace THEN TrimStart(Tail(s)) ELSE s

RECURSIVE TrimEnd(_)
TrimEnd(s) ==
    IF s # <<>> /\ s[Len(s)] \in Whitespace
    THEN TrimEnd(SubSeq(s, 1, Len(s) - 1))
    ELSE s

Trim(s) == TrimEnd(TrimStart(s))

Includes(s, q) ==
    \E i \in 0..Len(s) : i + Len(q) <= Len(s) /\ SubSeq(s, i + 1, i + Len(q)) = q

----------------------------------------------------------------------------
(* Values *)

Null == "<null>"                       \* error === null

NullStory == [id |-> 0, prompt |-> <<>>, story |-> <<>>, created_at |-> 0]

PromptInputs == { <<>>, <<" ">>, <<" ", "B", " ">> }

QueryInputs == { <<>>, <<" ", "C">> }

StoryTexts == { <<"A", "b">>, <<"c">> }

Bodies == { "", "boom" }

RejectMessages == { "", "Failed to fetch" }

Statuses == { 200, 500 }

ResOk(status) == status \in 200..299     \* Response.ok

NoResp == [kind |-> "none", status |-> 0, text |-> "", data |-> NullStory]

NoListResp == [kind |-> "none", status |-> 0, text |-> "", data |-> <<>>]

RemoveAt(seq, i) == SubSeq(seq, 1, i - 1) \o SubSeq(seq, i + 1, Len(seq))

----------------------------------------------------------------------------
(* State after the first render *)

Init ==
    /\ prompt = <<>>
    /\ loading = FALSE
    /\ fetching = FALSE
    /\ error = Null
    /\ stories = <<>>
    /\ generated = NullStory
    /\ query = <<>>
    /\ mounted = FALSE
    /\ event = "none"
    /\ genReqs = <<>>
    /\ posts = 0
    /\ listReq = [st |-> "none", resp |-> NoListResp]
    /\ db = <<>>
    /\ console = {}

----------------------------------------------------------------------------
(* loadStories *)

\* loadStories up to the await of fetch
LoadStoriesStart ==
    /\ fetching' = TRUE
    /\ listReq' = [st |-> "pending", resp |-> NoListResp]
    /\ UNCHANGED <<prompt, loading, error, stories, generated, query,
                   event, genReqs, posts, db, console>>

\* useEffect(() => { loadStories(); }, [])
Mount ==
    /\ ~mounted
    /\ mounted' = TRUE
    /\ LoadStoriesStart

\* the refresh button: onClick={loadStories} disabled={fetching}
ClickRefresh ==
    /\ mounted
    /\ event = "none"
    /\ ~fetching
    /\ listReq.st = "none"
    /\ LoadStoriesStart
    /\ UNCHANGED mounted

\* loadStories keeping the previous entries: setStories([...data, ...prev])
MergeStories(data, prev) == data \o prev

\* setStories(data)
ReplaceStories(data, prev) == data

\* the Error caught in loadStories: a rejected fetch carries its own
\* message, a response that is not ok throws new Error("Failed to load stories")
LoadThrownMessage(resp) ==
    IF resp.kind = "http" THEN "Failed to load stories" ELSE resp.text

\* loadStories surfacing the failure: console.error(e); setError(e.message)
LoadStoriesCatchShowsError(resp) ==
    /\ console' = console \cup {LoadThrownMessage(resp)}
    /\ error' = LoadThrownMessage(resp)
    /\ UNCHANGED <<prompt, loading, stories, generated, query>>

\* the catch block of loadStories: console.error(e) only
LoadStoriesCatch(resp) ==
    /\ console' = console \cup {LoadThrownMessage(resp)}
    /\ UNCHANGED <<prompt, loading, error, stories, generated, query>>

\* loadStories after the await: try body, catch, finally
LoadStoriesResume ==
    /\ event = "none"
    /\ listReq.st = "responded"
    /\ IF listReq.resp.kind = "http" /\ ResOk(listReq.resp.status)
       THEN /\ stories' = ReplaceStories(listReq.resp.data, stories)
            /\ UNCHANGED <<prompt, loading, error, generated, query, console>>
       ELSE LoadStoriesCatch(listReq.resp)
    /\ fetching' = FALSE
    /\ listReq' = [st |-> "none", resp |-> NoListResp]
    /\ UNCHANGED <<mounted, event, genReqs, posts, db>>

----------------------------------------------------------------------------
(* onGenerate *)

\* onGenerate without the trim: const p = prompt
PromptArgUntrimmed == prompt

\* const p = prompt.trim()
PromptArg == Trim(prompt)

\* onKeyDown={(e) => e.key === "Enter" && onGenerate()} on the prompt field
PressEnter ==
    /\ mounted
    /\ event = "none"
    /\ posts < MaxPosts
    /\ event' = "enter"
    /\ UNCHANGED <<prompt, loading, fetching, error, stories, generated,
                   query, mounted, genReqs, posts, listReq, db, console>>

\* the submit button: onClick={onGenerate} disabled={loading || !prompt.trim()}
ClickGenerate ==
    /\ mounted
    /\ event = "none"
    /\ posts < MaxPosts
    /\ ~(loading \/ Trim(prompt) = <<>>)
    /\ event' = "click"
    /\ UNCHANGED <<prompt, loading, fetching, error, stories, generated,
                   query, mounted, genReqs, posts, listReq, db, console>>

\* onGenerate up to the await of fetch
OnGenerate ==
    /\ event # "none"
    /\ event' = "none"
    /\ IF PromptArg = <<>>
       THEN UNCHANGED <<loading, error, generated, genReqs, posts>>
       ELSE /\ loading' = TRUE
            /\ error' = Null
            /\ generated' = NullStory
            /\ genReqs' = Append(genReqs,
                   [prompt |-> PromptArg, st |-> "pending", resp |-> NoResp])
            /\ posts' = posts + 1
    /\ UNCHANGED <<prompt, fetching, stories, query, mounted, listReq, db, console>>

\* onGenerate without the default text: throw new Error(text)
ThrownMessageNoDefault(resp) == resp.text

\* the Error thrown inside the try block: a rejected fetch carries its own
\* message, a non-2xx response throws new Error(text || "Server error")
ThrownMessage(resp) ==
    IF resp.kind = "http"
    THEN IF resp.text # "" THEN resp.text ELSE "Server error"
    ELSE resp.text

\* setError(e.message || "Failed to generate")
CatchMessage(message) ==
    IF message # "" THEN message ELSE "Failed to generate"

\* onGenerate appending instead: setStories((prev) => [...prev, data])
AppendStory(data, prev) == prev \o <<data>>

\* setStories((prev) => [data, ...prev])
PrependStory(data, prev) == <<data>> \o prev

\* the catch block of onGenerate
OnGenerateCatch(resp) ==
    /\ error' = CatchMessage(ThrownMessage(resp))
    /\ UNCHANGED <<prompt, stories, generated>>

\* onGenerate after the await: try body, catch, finally
OnGenerateResume(i) ==
    /\ event = "none"
    /\ genReqs[i].st = "responded"
    /\ LET resp == genReqs[i].resp IN
       IF resp.kind = "http" /\ ResOk(resp.status)
       THEN /\ generated' = resp.data
            /\ stories' = PrependStory(resp.data, stories)
            /\ prompt' = <<>>
            /\ UNCHANGED error
       ELSE OnGenerateCatch(resp)
    /\ loading' = FALSE
    /\ genReqs' = RemoveAt(genReqs, i)
    /\ UNCHANGED <<fetching, query, mounted, event, posts, listReq, db, console>>

----------------------------------------------------------------------------
(* Input fields *)

\* onChange={(e) => setPrompt(e.target.value)}
SetPrompt(v) ==
    /\ mounted
    /\ event = "none"
    /\ v # prompt
    /\ prompt' = v
    /\ UNCHANGED <<loading, fetching, error, stories, generated, query,
                   mounted, event, genReqs, posts, listReq, db, console>>

\* onChange={(e) => setQuery(e.target.value)}
SetQuery(v) ==
    /\ mounted
    /\ event = "none"
    /\ v # query
    /\ query' = v
    /\ UNCHANGED <<prompt, loading, fetching, error, stories, generated,
                   mounted, event, genReqs, posts, listReq, db, console>>

\* the filter looking at the prompt only
MatchesPrompt(s, q) == Includes(ToLowerCase(s.prompt), q)

\* const filtered = useMemo(...)
Matches(s, q) ==
    Includes(ToLowerCase(s.prompt), q) \/ Includes(ToLowerCase(s.story), q)

FilterStories(list, text) ==
    LET q == ToLowerCase(Trim(text))
        Keep(s) == Matches(s, q)
    IN  IF q = <<>> THEN list ELSE SelectSeq(list, Keep)

filtered == FilterStories(stories, query)

----------------------------------------------------------------------------
(* The backend and the network, as seen through fetch *)

\* POST /api/story answered: 200 with the created Story, or an error body
BackendPost(i) ==
    /\ genReqs[i].st = "pending"
    /\ \E status \in Statuses :
         IF ResOk(status)
         THEN \E t \in StoryTexts :
                LET s == [id |-> Len(db) + 1, prompt |-> genReqs[i].prompt,
                          story |-> t, created_at |-> Len(db) + 1]
                IN  /\ db' = <<s>> \o db
                    /\ genReqs' = [genReqs EXCEPT ![i].st = "responded",
                          ![i].resp = [kind |-> "http", status |-> status,
                                       text |-> "", data |-> s]]
         ELSE \E b \in Bodies :
                /\ db' = db
                /\ genReqs' = [genReqs EXCEPT ![i].st = "responded",
                      ![i].resp = [kind |-> "http", status |-> status,
                                   text |-> b, data |-> NullStory]]
    /\ UNCHANGED <<prompt, loading, fetching, error, stories, generated,
                   query, mounted, event, posts, listReq, console>>

\* the POST is rejected (network error): fetch throws
RejectPost(i) ==
    /\ genReqs[i].st = "pending"
    /\ \E m \in RejectMessages :
         genReqs' = [genReqs EXCEPT ![i].st = "responded",
                       ![i].resp = [kind |-> "reject", status |-> 0,
                                    text |-> m, data |-> NullStory]]
    /\ UNCHANGED <<prompt, loading, fetching, error, stories, generated,
                   query, mounted, event, posts, listReq, db, console>>

\* GET /api/story answered: 200 with the stored stories, or an error
BackendList ==
    /\ listReq.st = "pending"
    /\ \E status \in Statuses :
         listReq' = [st |-> "responded",
                     resp |-> [kind |-> "http", status |-> status, text |-> "",
                               data |-> IF ResOk(status) THEN db ELSE <<>>]]
    /\ UNCHANGED <<prompt, loading, fetching, error, stories, generated,
                   query, mounted, event, genReqs, posts, db, console>>

\* the GET is rejected (network error): fetch throws
RejectList ==
    /\ listReq.st = "pending"
    /\ listReq' = [st |-> "responded",
                   resp |-> [kind |-> "reject", status |-> 0,
                             text |-> "Failed to fetch", data |-> <<>>]]
    /\ UNCHANGED <<prompt, loading, fetching, error, stories, generated,
                   query, mounted, event, genReqs, posts, db, console>>

----------------------------------------------------------------------------

Next ==
    \/ Mount
    \/ ClickRefresh
    \/ LoadStoriesResume
    \/ PressEnter
    \/ ClickGenerate
    \/ OnGenerate
    \/ \E i \in 1..MaxPosts : i <= Len(genReqs) /\ OnGenerateResume(i)
    \/ \E v \in PromptInputs : SetPrompt(v)
    \/ \E v \in QueryInputs : SetQuery(v)
    \/ \E i \in 1..MaxPosts : i <= Len(genReqs) /\ BackendPost(i)
    \/ \E i \in 1..MaxPosts : i <= Len(genReqs) /\ RejectPost(i)
    \/ BackendList
    \/ RejectList

Spec == Init /\ [][Next]_vars

----------------------------------------------------------------------------
(* The filter on its own: any collection of stories, any query *)

SampleStories ==
    { [id |-> 1, prompt |-> <<"c", "a", "t", "s">>, story |-> <<"x">>,
       created_at |-> 1],
      [id |-> 2, prompt |-> <<"D", "o", "g", "s">>, story |-> <<"x">>,
       created_at |-> 2],
      [id |-> 3, prompt |-> <<"x">>, story |-> <<"a", " ", "C", "a", "t">>,
       created_at |-> 3],
      [id |-> 4, prompt |-> <<"x">>, story |-> <<"y">>, created_at |-> 4] }

SampleQueries ==
    { <<>>, <<" ">>, <<"c", "a", "t">>, <<" ", "C", "A", "T", " ">>,
      <<"a", " ", "c">>, <<"d", "o", "g", "s">> }

SeqsUpTo(S, n) == UNION { [1..k -> S] : k \in 0..n }

FilterInit ==
    /\ prompt = <<>>
    /\ loading = FALSE
    /\ fetching = FALSE
    /\ error = Null
    /\ stories \in SeqsUpTo(SampleStories, MaxListLen)
    /\ generated = NullStory
    /\ query = <<>>
    /\ mounted = TRUE
    /\ event = "none"
    /\ genReqs = <<>>
    /\ posts = 0
    /\ listReq = [st |-> "none", resp |-> NoListResp]
    /\ db = stories
    /\ console = {}

FilterNext == \E v \in SampleQueries : SetQuery(v)

FilterSpec == FilterInit /\ [][FilterNext]_vars

----------------------------------------------------------------------------
(* Properties *)

\* the step in which the continuation of onGenerate consumes the response
\* of the i-th request in flight
Consumes(i) ==
    /\ i <= Len(genReqs)
    /\ genReqs[i].st = "responded"
    /\ genReqs' = RemoveAt(genReqs, i)

Succeeded(resp) == resp.kind = "http" /\ resp.status \in 200..299

\* the step in which the continuation of loadStories consumes its response
ListConsumed == listReq.st = "responded" /\ listReq'.st = "none"

IsBlank(text) == \A k \in 1..Len(text) : text[k] \in Whitespace

\* text without its leading and trailing whitespace
Stripped(text) ==
    LET solid == { k \in 1..Len(text) : text[k] \notin Whitespace }
        first == CHOOSE k \in solid : \A m \in solid : k <= m
        last  == CHOOSE k \in solid : \A m \in solid : k >= m
    IN  IF solid = {} THEN <<>> ELSE SubSeq(text, first, last)

\* q occurs in text, letter case ignored
ContainsIgnoringCase(text, q) ==
    \E k \in 0..Len(text) :
        /\ k + Len(q) <= Len(text)
        /\ \A m \in 1..Len(q) : LowerChar(text[k + m]) = LowerChar(q[m])

StoryContains(s, q) ==
    ContainsIgnoringCase(s.prompt, q) \/ ContainsIgnoringCase(s.story, q)

\* the stories of list that contain q, in the order of list
StoriesContaining(list, q) ==
    LET hits == { k \in 1..Len(list) : StoryContains(list[k], q) }
        nth(n) == CHOOSE k \in hits :
                     Cardinality({ m \in hits : m <= k }) = n
    IN  [n \in 1..Cardinality(hits) |-> list[nth(n)]]

\* C1: at most one generation request is in flight in every reachable state
\* (triggering generate while one is outstanding issues no second POST).
AtMostOneGenerationInFlight == Len(genReqs) <= 1

\* C2: generate invoked with an empty or whitespace-only prompt issues no
\* request and changes no state variable.
BlankPromptIsNoOp ==
    [][(event # "none" /\ event' = "none" /\ IsBlank(prompt)) =>
          UNCHANGED <<prompt, loading, fetching, error, stories, generated,
                      query, genReqs, posts, listReq, console>>]_vars

BlankPromptSubmitted == event = "enter" /\ prompt # <<>> /\ IsBlank(prompt)

\* C3: when a generation request completes successfully with Story d, d is
\* the generated result, d is the first element of the collection followed
\* by the previous collection unchanged, and the prompt is empty.
SuccessShowsAndPrepends ==
    [][\A i \in 1..MaxPosts :
          (Consumes(i) /\ Succeeded(genReqs[i].resp)) =>
              /\ generated' = genReqs[i].resp.data
              /\ stories' = <<genReqs[i].resp.data>> \o stories
              /\ prompt' = <<>>]_vars

SuccessAfterEarlierStory ==
    /\ generated # NullStory
    /\ Len(stories) >= 2
    /\ stories[1] = generated
    /\ stories[2].id # generated.id
    /\ prompt = <<>>
    /\ ~loading

\* C4: when a generation request fails, the error is the body text of a
\* non-2xx response, "Server error" if that body is empty, the network
\* error's message or "Failed to generate" on a network error; the story
\* collection is what it was.
FailureShowsError ==
    [][\A i \in 1..MaxPosts :
          (Consumes(i) /\ ~Succeeded(genReqs[i].resp)) =>
              LET resp == genReqs[i].resp IN
              /\ resp.kind = "http" /\ resp.text # "" => error' = resp.text
              /\ resp.kind = "http" /\ resp.text = "" => error' = "Server error"
              /\ resp.kind = "reject" /\ resp.text # "" => error' = resp.text
              /\ resp.kind = "reject" /\ resp.text = ""
                    => error' = "Failed to generate"
              /\ stories' = stories]_vars

ServerErrorShown ==
    /\ error = "Server error"
    /\ stories # <<>>
    /\ genReqs = <<>>
    /\ ~loading

\* C5 (as stated): after a listing request succeeds with N stories, the
\* displayed list is exactly those N stories in the order received,
\* whatever the search query is.
ListingDisplaysAllReceived ==
    [][(ListConsumed /\ Succeeded(listReq.resp)) =>
          FilterStories(stories', query') = listReq.resp.data]_vars

\* C5 (amended): after a listing request succeeds with N stories, the story
\* collection is exactly those N stories in the order received, whatever it
\* held before; the displayed list is that collection filtered by the search
\* query, all N stories when the query is empty or whitespace only.
ListingReplacesCollection ==
    [][(ListConsumed /\ Succeeded(listReq.resp)) =>
          /\ stories' = listReq.resp.data
          /\ FilterStories(stories', query')
                = StoriesContaining(listReq.resp.data, Stripped(query'))
          /\ IsBlank(query') =>
                FilterStories(stories', query') = listReq.resp.data]_vars

\* a listing snapshot was applied while the response of a generation was
\* still in flight
ListingAppliedDuringGeneration ==
    /\ listReq.st = "none"
    /\ ~fetching
    /\ Len(stories) = 2
    /\ stories = db
    /\ \E i \in 1..Len(genReqs) :
          genReqs[i].st = "responded" /\ genReqs[i].resp.data = stories[1]

\* C6: when a listing request fails, the story collection, the generated
\* result, the prompt and the error are unchanged; the failure is only
\* logged.
ListingFailureOnlyLogged ==
    [][(ListConsumed /\ ~Succeeded(listReq.resp)) =>
          /\ UNCHANGED <<stories, generated, prompt, error, query, loading>>
          /\ console' # {}]_vars

ListingFailedViewRetained ==
    /\ "Failed to load stories" \in console
    /\ listReq.st = "none"
    /\ ~fetching
    /\ stories # <<>>
    /\ generated # NullStory
    /\ error = Null

\* C7 (as stated): the filtered list is the subsequence of the stories
\* whose prompt or story text contains the query, letter case ignored.
FilterByQuery == filtered = StoriesContaining(stories, query)

\* C7 (amended): the filtered list is the subsequence of the stories whose
\* prompt or story text contains the query without its leading and trailing
\* whitespace, letter case ignored; for an empty or whitespace-only query it
\* is the full collection.
FilterByStrippedQuery ==
    /\ filtered = StoriesContaining(stories, Stripped(query))
    /\ IsBlank(query) => filtered = stories

PaddedQuerySelectsSome ==
    /\ query = <<" ", "C", "A", "T", " ">>
    /\ Len(stories) = 3
    /\ Len(filtered) = 2
    /\ filtered[1].id = 3
    /\ filtered[2].id = 1

\* C8: once a generation request has completed with failure, loading is
\* false and no generation request is outstanding.
FailureReturnsToIdle ==
    [][\A i \in 1..MaxPosts :
          (Consumes(i) /\ ~Succeeded(genReqs[i].resp)) =>
              loading' = FALSE /\ genReqs' = <<>>]_vars

\* C9: the story collection never holds two entries with the same id.
UniqueStoryIds ==
    \A i, j \in 1..Len(stories) : i # j => stories[i].id # stories[j].id

\* C10: the error banner and the generated result are never both set.
ErrorOrResultNotBoth == ~(error # Null /\ generated # NullStory)

====
